---- MODULE Spec2Model ----
(***************************************************************************)
(* Quickpoll (bot.py): the free-form quiz text parser extract_quiz as a    *)
(* state machine over the line cursor i, with the text handled character   *)
(* by character.  A text is a sequence of characters; a character is a     *)
(* one-element string, the two checkmark glyphs being written by their     *)
(* code points.                                                            *)
(***************************************************************************)
EXTENDS Integers, Sequences, FiniteSets, TLC

\* ------------------------------------------------------------ characters

CR == "\r"
LF == "\n"
HeavyCheck == "U+2705"
CheckMark == "U+2714"

\* what str.strip / str.rstrip remove and what \s matches
WhiteSpace == {" ", "\t", LF, CR}
\* \d
Digits == {"0", "1", "2", "3", "4", "5", "6", "7", "8", "9"}
\* [A-Da-d]
OptionLetters == {"A", "B", "C", "D", "a", "b", "c", "d"}
\* [\(\[]
OpenBrackets == {"(", "["}
\* [\)\]\.\-\s]
OptionSeps == {")", "]", ".", "-"} \cup WhiteSpace
\* [\.\)\-\s]
NumberSeps == {".", ")", "-"} \cup WhiteSpace
\* the two glyphs of line 86
Glyphs == {HeavyCheck, CheckMark}
\* the characters of the model's texts that \w does not match
NonWordChars == WhiteSpace \cup OpenBrackets \cup {")", "]", ".", "-", ":", "?"} \cup Glyphs
\* the alternatives of (Ex:|Explain:|Explanation:), in lower case
ExplanationMarkers ==
    { <<"e", "x", ":">>,
      <<"e", "x", "p", "l", "a", "i", "n", ":">>,
      <<"e", "x", "p", "l", "a", "n", "a", "t", "i", "o", "n", ":">> }

\* re.I: the case folding of the letters the markers are made of
Lower(c) ==
    CASE c = "E" -> "e" [] c = "X" -> "x" [] c = "P" -> "p" [] c = "L" -> "l"
      [] c = "A" -> "a" [] c = "I" -> "i" [] c = "N" -> "n" [] c = "T" -> "t"
      [] c = "O" -> "o" [] OTHER -> c

\* ------------------------------------------------------- string helpers

\* s[from..] (1-based), empty when from is past the end
Drop(s, from) == SubSeq(s, from, Len(s))

\* the first position >= k of s that holds no character of S (Len(s)+1 if none)
RECURSIVE SkipWhile(_, _, _)
SkipWhile(s, k, S) ==
    IF k <= Len(s) /\ s[k] \in S THEN SkipWhile(s, k + 1, S) ELSE k

\* the last position <= k of s that holds no character of S (0 if none)
RECURSIVE SkipBack(_, _, _)
SkipBack(s, k, S) ==
    IF k >= 1 /\ s[k] \in S THEN SkipBack(s, k - 1, S) ELSE k

rstrip(s) == SubSeq(s, 1, SkipBack(s, Len(s), WhiteSpace))
lstrip(s) == Drop(s, SkipWhile(s, 1, WhiteSpace))
strip(s) == lstrip(rstrip(s))

\* s[:k]
Take(s, k) == SubSeq(s, 1, IF Len(s) < k THEN Len(s) ELSE k)

\* c in s
Contains(s, c) == \E k \in 1..Len(s) : s[k] = c

\* s.replace(c, '')
RemoveChar(s, c) == SelectSeq(s, LAMBDA x : x # c)

\* the positions of s, in order
Indices(s) == [k \in 1..Len(s) |-> k]

\* the characters of s that \w matches
WordCharsOf(s) == {s[k] : k \in 1..Len(s)} \ NonWordChars

\* pat matches s at position k, ignoring case
MatchesAtCI(s, k, pat) ==
    /\ k + Len(pat) - 1 <= Len(s)
    /\ \A j \in 1..Len(pat) : Lower(s[k + j - 1]) = pat[j]

\* data.replace('\r\n', '\n'): every CR that an LF follows goes
ReplaceCRLF(s) ==
    LET kept == SelectSeq(Indices(s),
                         LAMBDA k : ~(s[k] = CR /\ k < Len(s) /\ s[k + 1] = LF))
    IN  [j \in 1..Len(kept) |-> s[kept[j]]]

\* .replace('\r', '\n')
ReplaceCR(s) == [k \in 1..Len(s) |-> IF s[k] = CR THEN LF ELSE s[k]]

\* a normalization that forgets the lone carriage returns
NormalizeCRLFOnly(s) == ReplaceCRLF(s)

\* line 28
Normalize(s) == ReplaceCR(ReplaceCRLF(s))

\* line 29: txt.split('\n'), always at least one piece
SplitLF(s) ==
    LET at == SelectSeq(Indices(s), LAMBDA k : s[k] = LF)
    IN  [j \in 1..(Len(at) + 1) |->
            SubSeq(s, IF j = 1 THEN 1 ELSE at[j - 1] + 1,
                      IF j <= Len(at) THEN at[j] - 1 ELSE Len(s))]

\* lines 28-32
SplitLines(s) ==
    LET raw_lines == SplitLF(Normalize(s))
    IN  [k \in 1..Len(raw_lines) |-> rstrip(raw_lines[k])]

\* -------------------------------------------------- line classification

\* line 40: ^\s*[\(\[]?[A-Da-d][\)\]\.\-\s]+ ; the position of the letter, 0 if no match
OptionLetterPos(s) ==
    LET a == SkipWhile(s, 1, WhiteSpace)
        b == IF a <= Len(s) /\ s[a] \in OpenBrackets THEN a + 1 ELSE a
    IN  IF b + 1 <= Len(s) /\ s[b] \in OptionLetters /\ s[b + 1] \in OptionSeps
        THEN b ELSE 0

is_option_line(s) == OptionLetterPos(s) # 0

\* lines 51, 100: ^\s*\d+[\.\)\-\s]+ ; the position after the digits, 0 if no match
NumberEnd(s) ==
    LET a == SkipWhile(s, 1, WhiteSpace)
        d == SkipWhile(s, a, Digits)
    IN  IF d > a /\ d <= Len(s) /\ s[d] \in NumberSeps THEN d ELSE 0

num_start(s) == NumberEnd(s) # 0

\* line 60: re.sub(r'^\s*\d+[\.\)\-\s]*', '', s).strip(), s a numbered line
StripNumber(s) ==
    LET a == SkipWhile(s, 1, WhiteSpace)
        d == SkipWhile(s, a, Digits)
    IN  IF d > a THEN strip(Drop(s, SkipWhile(s, d, NumberSeps))) ELSE strip(s)

\* lines 67, 95: ^\s*(Ex:|Explain:|Explanation:), re.I ; the length of the marker, 0 if none
MarkerLen(s) ==
    LET a == SkipWhile(s, 1, WhiteSpace)
        hit == {m \in ExplanationMarkers : MatchesAtCI(s, a, m)}
    IN  IF hit = {} THEN 0 ELSE Len(CHOOSE m \in hit : TRUE)

is_explanation_line(s) == MarkerLen(s) # 0

\* line 97: re.sub(r'^\s*(Ex:|Explain:|Explanation:)\s*', '', s, flags=re.I).strip()
StripMarker(s) ==
    LET a == SkipWhile(s, 1, WhiteSpace)
    IN  IF MarkerLen(s) = 0 THEN strip(s)
        ELSE strip(Drop(s, SkipWhile(s, a + MarkerLen(s), WhiteSpace)))

is_blank(s) == strip(s) = <<>>

\* line 83: re.sub(r'^[^\w\d]*(\w+)[\)\.\-\s]*', '', opt_line).strip()
RemoveFirstToken(s) ==
    LET a == SkipWhile(s, 1, NonWordChars)
        w == SkipWhile(s, a, WordCharsOf(s))
    IN  IF w > a THEN strip(Drop(s, SkipWhile(s, w, NumberSeps))) ELSE strip(s)

\* lines 76-83: the option text after the label
OptionText(line) ==
    LET opt_line == strip(line)
        b == OptionLetterPos(opt_line)
    IN  IF b # 0 THEN strip(Drop(opt_line, SkipWhile(opt_line, b + 1, OptionSeps)))
        ELSE RemoveFirstToken(opt_line)

\* line 86
HasGlyph(opt_text) == Contains(opt_text, HeavyCheck) \/ Contains(opt_text, CheckMark)

\* a strip that forgets the second glyph
StripHeavyCheckOnly(opt_text) == strip(RemoveChar(opt_text, HeavyCheck))

\* line 87
StripGlyphs(opt_text) == strip(RemoveChar(RemoveChar(opt_text, HeavyCheck), CheckMark))

\* lines 86-90: the text appended to options
StoredOption(opt_line) ==
    LET opt_text == OptionText(opt_line)
    IN  IF HasGlyph(opt_text) THEN StripGlyphs(opt_text) ELSE opt_text

\* ------------------------------------------------------------ the block

\* a cap that lets an eleventh option in
MaxOptionsOneMore == 10 + 1

\* line 75: the option cap
MaxOptions == 10

\* a check that lets a single option pass
MinOptionsOne == 2 - 1

\* line 110: the fewest options of a record
MinOptions == 2
\* line 118
QuestionLimit == 300
\* line 122
ExplanationLimit == 400
\* a default that names the second option
DefaultCorrectSecond == 0 + 1

\* line 115: the correct index when no option is marked
DefaultCorrect == 0
\* line 74: correct_idx = None
NoIdx == -1
\* lines 119, 123: " [...]"
TruncationMarker == <<" ", "[", ".", ".", ".", "]">>

\* a truncation that also cuts a text of exactly the limit
TruncateAtLimit(s, limit) ==
    IF Len(s) >= limit THEN Take(s, limit) \o TruncationMarker ELSE s

\* lines 118-119, 122-123
Truncate(s, limit) ==
    IF Len(s) > limit THEN Take(s, limit) \o TruncationMarker ELSE s

\* lines 52-55: the stripped next non-blank line after line p (0-based), '' if none
RECURSIVE NextNonBlankIdx(_, _)
NextNonBlankIdx(ls, k) ==
    IF k < Len(ls) /\ is_blank(ls[k + 1]) THEN NextNonBlankIdx(ls, k + 1) ELSE k

next_line(ls, p) ==
    LET next_line_idx == NextNonBlankIdx(ls, p + 1)
    IN  IF next_line_idx < Len(ls) THEN strip(ls[next_line_idx + 1]) ELSE <<>>

\* a start on any line that has a non-blank line after it
IsQuestionStartBeforeAnyLine(ls, p) == num_start(ls[p + 1]) \/ next_line(ls, p) # <<>>

\* line 57
IsQuestionStart(ls, p) == num_start(ls[p + 1]) \/ is_option_line(next_line(ls, p))

\* line 67: where the question's continuation lines end
RECURSIVE ContinuationEnd(_, _)
ContinuationEnd(ls, k) ==
    IF /\ k < Len(ls)
       /\ ~is_option_line(ls[k + 1])
       /\ ~is_blank(ls[k + 1])
       /\ ~is_explanation_line(ls[k + 1])
    THEN ContinuationEnd(ls, k + 1) ELSE k

\* line 75: where the collected option lines end, cnt = len(options)
RECURSIVE OptionsEnd(_, _, _)
OptionsEnd(ls, k, cnt) ==
    IF k < Len(ls) /\ is_option_line(ls[k + 1]) /\ cnt < MaxOptions
    THEN OptionsEnd(ls, k + 1, cnt + 1) ELSE k

\* a continuation that only a blank or an option line ends
ExplanationContEndPastNumbers(ls, k) ==
    LET stops == {q \in k..(Len(ls) - 1) : is_blank(ls[q + 1]) \/ is_option_line(ls[q + 1])}
    IN  IF stops = {} THEN IF k < Len(ls) THEN Len(ls) ELSE k
        ELSE CHOOSE q \in stops : \A r \in stops : q <= r

\* line 100: where the explanation's continuation lines end
RECURSIVE ExplanationContEnd(_, _)
ExplanationContEnd(ls, k) ==
    IF /\ k < Len(ls)
       /\ ~is_blank(ls[k + 1])
       /\ ~num_start(ls[k + 1])
       /\ ~is_option_line(ls[k + 1])
    THEN ExplanationContEnd(ls, k + 1) ELSE k

\* lines 69, 101: acc += " " + lines[k].strip() for k in from..to-1
RECURSIVE JoinLines(_, _, _, _)
JoinLines(ls, from, to, acc) ==
    IF from >= to THEN acc
    ELSE JoinLines(ls, from + 1, to, acc \o <<" ">> \o strip(ls[from + 1]))

\* an index counted from one
FirstMarkedOneBased(ls, qend, oend) ==
    LET marked == {k \in 1..(oend - qend) : HasGlyph(OptionText(ls[qend + k]))}
    IN  IF marked = {} THEN NoIdx
        ELSE CHOOSE k \in marked : \A m \in marked : k <= m

\* lines 88-89: the index of the first collected option whose text holds a glyph
FirstMarked(ls, qend, oend) ==
    LET marked == {k \in 0..(oend - qend - 1) : HasGlyph(OptionText(ls[qend + k + 1]))}
    IN  IF marked = {} THEN NoIdx
        ELSE CHOOSE k \in marked : \A m \in marked : k <= m

\* lines 59-108: the block that starts at line p (0-based), before the checks
Block(ls, p) ==
    LET seed == IF num_start(ls[p + 1]) THEN StripNumber(ls[p + 1]) ELSE strip(ls[p + 1])
        qend == ContinuationEnd(ls, p + 1)
        oend == OptionsEnd(ls, qend, 0)
        explained == oend < Len(ls) /\ is_explanation_line(ls[oend + 1])
        end == IF explained THEN ExplanationContEnd(ls, oend + 1) ELSE oend
    IN  [ start |-> p,
          qend |-> qend,
          oend |-> oend,
          end |-> end,
          question_text |-> strip(JoinLines(ls, p + 1, qend, seed)),
          options |-> [k \in 1..(oend - qend) |-> StoredOption(ls[qend + k])],
          correct_idx |-> FirstMarked(ls, qend, oend),
          explained |-> explained,
          explanation |-> IF explained
                          THEN JoinLines(ls, oend + 1, end, StripMarker(ls[oend + 1]))
                          ELSE <<>> ]

\* lines 114-133: the record of a block that passed the checks
Quiz(b) ==
    [ question |-> Truncate(b.question_text, QuestionLimit),
      options |-> Take(b.options, MaxOptions),
      correct_id |-> IF b.correct_idx = NoIdx THEN DefaultCorrect ELSE b.correct_idx,
      explanation |-> IF b.explanation # <<>>
                      THEN Truncate(b.explanation, ExplanationLimit) ELSE <<>> ]

\* ------------------------------------------------------------ the inputs

\* the longest free text, in lines
MaxLines == 4
\* the most chunks of a chunked text
MaxChunks == 3
\* the most option lines after one question
MaxOptionLines == 11
\* how far the long questions and explanations go below and above the limits
Slack == 1

Blank == <<>>
Numbered == <<"1", ".", " ", "Q", "?">>
NumberedEmpty == <<"2", ")">>
Text == <<"T">>
OptA == <<"a", ")", " ", "x">>
OptB == <<"(", "B", ")", " ", "y", HeavyCheck>>
OptC == <<" ", "c", ".", CheckMark, "z", " ">>
Expl == <<"E", "x", ":", " ", "e">>

FreeLines == {Blank, Numbered, NumberedEmpty, Text, OptA, OptB, OptC, Expl}

FreeTexts == UNION {[1..k -> FreeLines] : k \in 1..MaxLines}

Chunks ==
    { <<Numbered, OptA, OptB>>,
      <<Text, OptC, OptA, <<"e", "X", "P", "L", "A", "I", "N", ":", "e">> >>,
      <<Numbered, OptA>>,
      <<NumberedEmpty, OptA, OptB>>,
      <<Blank>>,
      <<Text>> }

RECURSIVE Flatten(_)
Flatten(ss) == IF ss = <<>> THEN <<>> ELSE Head(ss) \o Flatten(Tail(ss))

ChunkTexts == {Flatten(cs) : cs \in UNION {[1..k -> Chunks] : k \in 1..MaxChunks}}

Rep(c, k) == [j \in 1..k |-> c]

\* the k-th option line of a run, with a glyph when marked
OptLine(k, marked) ==
    <<<<"a", "b", "c", "d">>[((k - 1) % 4) + 1], ")", " ", "o">>
        \o (IF marked THEN <<IF k % 2 = 0 THEN HeavyCheck ELSE CheckMark, "!">> ELSE <<>>)

\* a question followed by m option lines of which at most two are marked
OptionRunTexts ==
    { <<Numbered>> \o [k \in 1..m[1] |-> OptLine(k, k \in m[2])] \o t :
        m \in { mm \in (0..MaxOptionLines) \X SUBSET (1..MaxOptionLines) :
                   Cardinality(mm[2]) <= 2 /\ mm[2] \subseteq 1..mm[1] },
        t \in {<<>>, <<Expl>>} }

\* questions and explanations around the two limits
LongTexts ==
    { << <<"7", ".", " ">> \o Rep("q", ql) >> \o c \o <<OptA, OptB>>
         \o << <<"E", "x", "p", "l", "a", "n", "a", "t", "i", "o", "n", ":">> \o Rep("e", el) >> :
        ql \in (QuestionLimit - Slack)..(QuestionLimit + Slack),
        el \in (ExplanationLimit - Slack)..(ExplanationLimit + Slack),
        c \in {<<>>, <<Text>>} }

\* the line terminators of line 28
Terminators == {<<LF>>, <<CR, LF>>, <<CR>>}

\* the lines of a text joined by a terminator
RECURSIVE Joined(_, _)
Joined(ls, eol) ==
    IF Len(ls) = 1 THEN ls[1] ELSE ls[1] \o eol \o Joined(Tail(ls), eol)

\* absent input (None) and present input
None == <<>>
Some(t) == <<t>>

Inputs ==
    {None, Some(<<>>)}
    \cup {Some(Joined(t, <<LF>>)) : t \in FreeTexts \cup OptionRunTexts \cup LongTexts}
    \cup {Some(Joined(t, eol)) : t \in ChunkTexts, eol \in Terminators}

\* ------------------------------------------------------------- the state

VARIABLES
    data,      \* the argument of extract_quiz: None or Some(text)
    txt,       \* line 28: the text with its line endings normalized
    lines,     \* line 32
    n,         \* line 36
    i,         \* the line cursor, 0-based
    quizzes,   \* line 34
    pc,        \* "start", "scan" (the loop of line 42) or "done" (returned)
    blocks,    \* history: the blocks entered at line 57, each with its outcome
    visited,   \* history: the values of i at the head of the loop's iterations
    iters,     \* history: the iterations of the loop of line 42 so far
    owner_questions,  \* line 162: the batch stored for the owner
    handlers,         \* the handler each worker thread of the bot is running
    received,         \* the number of messages dispatched so far
    polls,            \* history: the send_poll calls made for each message
    replies           \* history: the reply_to calls made for each message

parser_vars == <<data, txt, lines, n, i, quizzes, pc, blocks, visited, iters>>
bot_vars == <<owner_questions, handlers, received, polls, replies>>
vars == <<parser_vars, bot_vars>>

\* no call of extract_quiz is under way
ParserIdle ==
    /\ txt = <<>>
    /\ lines = <<>>
    /\ n = 0
    /\ i = 0
    /\ quizzes = <<>>
    /\ pc = "start"
    /\ blocks = <<>>
    /\ visited = {}
    /\ iters = 0

\* line 13: the worker threads telebot.TeleBot runs handlers on by default
NumThreads == 2
Threads == 1..NumThreads

\* lines 7-8: the owner's user id, and the id of some other user
OWNER_ID == "owner"
Users == {OWNER_ID, "stranger"}

\* no message
NoMessage == [id |-> 0, from |-> "", chat |-> "", kind |-> "", text |-> <<>>, readable |-> FALSE]

\* a worker thread with no handler to run; the other fields are the locals
\* of a running handler: message, quizzes, target_chat and the position of
\* the loops of lines 177 and 198 (batch: which stored batch quizzes is)
Idle == [pc |-> "idle", msg |-> NoMessage, quizzes |-> <<>>, batch |-> 0, target_chat |-> <<>>, k |-> 0]

\* line 162 and the bot before its first update: nothing stored, nothing sent
\* (present: the user id is a key of the dict; batch: the message that stored it)
BotIdle ==
    /\ owner_questions = [u \in Users |-> [present |-> FALSE, quizzes |-> <<>>, batch |-> 0]]
    /\ handlers = [h \in Threads |-> Idle]
    /\ received = 0
    /\ polls = <<>>
    /\ replies = <<>>

Init ==
    /\ data \in Inputs
    /\ ParserIdle
    /\ BotIdle

\* line 24: not data
IsEmpty(d) == IF d = None THEN TRUE ELSE d[1] = <<>>

\* lines 24-25
ReturnEmpty ==
    /\ pc = "start"
    /\ IsEmpty(data)
    /\ pc' = "done"
    /\ UNCHANGED <<bot_vars, data, txt, lines, n, i, quizzes, blocks, visited, iters>>

\* lines 27-36
Preprocess ==
    /\ pc = "start"
    /\ ~IsEmpty(data)
    /\ txt' = Normalize(data[1])
    /\ lines' = SplitLines(data[1])
    /\ n' = Len(lines')
    /\ i' = 0
    /\ quizzes' = <<>>
    /\ pc' = "scan"
    /\ UNCHANGED <<bot_vars, data, blocks, visited, iters>>

\* one more iteration of the loop of line 42, entered with cursor i
Iteration ==
    /\ pc = "scan"
    /\ i < n
    /\ visited' = visited \cup {i}
    /\ iters' = iters + 1

\* lines 43-46
SkipBlank ==
    /\ Iteration
    /\ is_blank(lines[i + 1])
    /\ i' = i + 1
    /\ UNCHANGED <<bot_vars, data, txt, lines, n, quizzes, pc, blocks>>

\* a skip that forgets to advance the cursor
SkipLineStuck ==
    /\ Iteration
    /\ ~is_blank(lines[i + 1])
    /\ ~IsQuestionStart(lines, i)
    /\ i' = i
    /\ UNCHANGED <<bot_vars, data, txt, lines, n, quizzes, pc, blocks>>

\* lines 57, 138-139
SkipLine ==
    /\ Iteration
    /\ ~is_blank(lines[i + 1])
    /\ ~IsQuestionStart(lines, i)
    /\ i' = i + 1
    /\ UNCHANGED <<bot_vars, data, txt, lines, n, quizzes, pc, blocks>>

\* a block is entered at line 57
EnterBlock ==
    /\ Iteration
    /\ ~is_blank(lines[i + 1])
    /\ IsQuestionStart(lines, i)

\* lines 105-108
DiscardNoQuestion ==
    /\ EnterBlock
    /\ LET b == Block(lines, i)
       IN  /\ b.question_text = <<>>
           /\ i' = b.end
           /\ blocks' = Append(blocks, b @@ [emitted |-> FALSE])
    /\ UNCHANGED <<bot_vars, data, txt, lines, n, quizzes, pc>>

\* a discard that leaves the loop instead of continuing it
DiscardFewOptionsBreaks ==
    /\ EnterBlock
    /\ LET b == Block(lines, i)
       IN  /\ b.question_text # <<>>
           /\ Len(b.options) < MinOptions
           /\ i' = b.end
           /\ blocks' = Append(blocks, b @@ [emitted |-> FALSE])
    /\ pc' = "done"
    /\ UNCHANGED <<bot_vars, data, txt, lines, n, quizzes>>

\* a discard that goes back to the line after the one the block began on
DiscardFewOptionsRescans ==
    /\ EnterBlock
    /\ LET b == Block(lines, i)
       IN  /\ b.question_text # <<>>
           /\ Len(b.options) < MinOptions
           /\ i' = b.start + 1
           /\ blocks' = Append(blocks, b @@ [emitted |-> FALSE])
    /\ UNCHANGED <<bot_vars, data, txt, lines, n, quizzes, pc>>

\* lines 110-112
DiscardFewOptions ==
    /\ EnterBlock
    /\ LET b == Block(lines, i)
       IN  /\ b.question_text # <<>>
           /\ Len(b.options) < MinOptions
           /\ i' = b.end
           /\ blocks' = Append(blocks, b @@ [emitted |-> FALSE])
    /\ UNCHANGED <<bot_vars, data, txt, lines, n, quizzes, pc>>

\* an append at the front of the list
AppendQuizInFront ==
    /\ EnterBlock
    /\ LET b == Block(lines, i)
       IN  /\ b.question_text # <<>>
           /\ Len(b.options) >= MinOptions
           /\ quizzes' = <<Quiz(b)>> \o quizzes
           /\ i' = b.end
           /\ blocks' = Append(blocks, b @@ [emitted |-> TRUE])
    /\ UNCHANGED <<bot_vars, data, txt, lines, n, pc>>

\* an append that never looks at the question text
AppendQuizAnyQuestion ==
    /\ EnterBlock
    /\ LET b == Block(lines, i)
       IN  /\ Len(b.options) >= MinOptions
           /\ quizzes' = Append(quizzes, Quiz(b))
           /\ i' = b.end
           /\ blocks' = Append(blocks, b @@ [emitted |-> TRUE])
    /\ UNCHANGED <<bot_vars, data, txt, lines, n, pc>>

\* lines 114-136
AppendQuiz ==
    /\ EnterBlock
    /\ LET b == Block(lines, i)
       IN  /\ b.question_text # <<>>
           /\ Len(b.options) >= MinOptions
           /\ quizzes' = Append(quizzes, Quiz(b))
           /\ i' = b.end
           /\ blocks' = Append(blocks, b @@ [emitted |-> TRUE])
    /\ UNCHANGED <<bot_vars, data, txt, lines, n, pc>>

\* lines 42, 141
Return ==
    /\ pc = "scan"
    /\ i >= n
    /\ pc' = "done"
    /\ UNCHANGED <<bot_vars, data, txt, lines, n, i, quizzes, blocks, visited, iters>>

Next ==
    \/ ReturnEmpty
    \/ Preprocess
    \/ SkipBlank
    \/ SkipLine
    \/ DiscardNoQuestion
    \/ DiscardFewOptions
    \/ AppendQuiz
    \/ Return

Spec == Init /\ [][Next]_vars

\* ------------------------------------- line endings: the step of line 28

\* the longest raw text, in characters
MaxRaw == 5
RawChars == {CR, LF, "x"}
RawTexts == UNION {[1..k -> RawChars] : k \in 1..MaxRaw}
RawInputs == {Some(t) : t \in RawTexts}

NormInit ==
    /\ data \in RawInputs
    /\ ParserIdle
    /\ BotIdle

\* line 28, applied to the argument
NormalizeData ==
    /\ pc = "start"
    /\ txt' = Normalize(data[1])
    /\ pc' = "normalized"
    /\ UNCHANGED <<bot_vars, data, lines, n, i, quizzes, blocks, visited, iters>>

\* line 28, applied to a text it has already normalized
NormalizeAgain ==
    /\ pc = "normalized"
    /\ txt' = Normalize(txt)
    /\ pc' = "renormalized"
    /\ UNCHANGED <<bot_vars, data, lines, n, i, quizzes, blocks, visited, iters>>

NormNext ==
    \/ NormalizeData
    \/ NormalizeAgain

NormSpec == NormInit /\ [][NormNext]_vars

\* ---------------------------------------------------------------- the bot

\* lines 15-141 as a function of the argument: the loop of line 42 from line p
RECURSIVE Scan(_, _, _)
Scan(ls, p, acc) ==
    IF p >= Len(ls) THEN acc
    ELSE IF is_blank(ls[p + 1]) \/ ~IsQuestionStart(ls, p) THEN Scan(ls, p + 1, acc)
    ELSE LET b == Block(ls, p)
         IN  IF b.question_text = <<>> \/ Len(b.options) < MinOptions
             THEN Scan(ls, b.end, acc)
             ELSE Scan(ls, b.end, Append(acc, Quiz(b)))

extract_quiz(d) == IF IsEmpty(d) THEN <<>> ELSE Scan(SplitLines(d[1]), 0, <<>>)

\* a check that lets every user pass
is_owner_anyone(message) == message.from \in Users

\* lines 144-145
is_owner(message) == message.from = OWNER_ID

\* the most messages the bot receives
MaxMessages == 3

\* what users send: a text with two quizzes, a file with one, "/Here ", a
\* chat id, a user name, the start command
QuizText == Joined(<<Numbered, OptA, OptB, Blank, Text, OptC, OptA>>, <<LF>>)
FileText == Joined(<<Numbered, OptC, OptA>>, <<CR, LF>>)
HereText == <<"/", "H", "e", "r", "e", " ">>
IdText == <<"-", "1", "2">>
NameText == <<"@", "g">>
StartText == <<"/", "s", "t", "a", "r", "t">>

\* the updates: text messages, and documents that can or cannot be read
Updates ==
    {[from |-> OWNER_ID, chat |-> "chat", kind |-> "text", text |-> t, readable |-> TRUE] :
        t \in {QuizText, HereText, IdText, NameText, StartText}}
    \cup {[from |-> OWNER_ID, chat |-> "chat", kind |-> "document", text |-> FileText, readable |-> r] :
        r \in BOOLEAN}
    \cup {[from |-> OWNER_ID, chat |-> "chat", kind |-> "document", text |-> NameText, readable |-> TRUE]}
    \cup {[from |-> "stranger", chat |-> "chat", kind |-> "text", text |-> t, readable |-> TRUE] :
        t \in {HereText, StartText}}
    \cup {[from |-> "stranger", chat |-> "chat", kind |-> "document", text |-> FileText, readable |-> TRUE]}

\* lines 216, 236: extract_quiz of each text the updates hold
Extracted == [t \in {u.text : u \in Updates} |-> extract_quiz(Some(t))]

\* lines 147, 164, 225: the handler a message is dispatched to
Handler(m) ==
    IF m.kind = "text" /\ Take(m.text, Len(StartText)) = StartText THEN "start"
    ELSE IF m.kind = "text" THEN "handle_text"
    ELSE "handle_document"

\* line 174: str.lower, on the letters of "/here"
lower(s) ==
    [k \in 1..Len(s) |->
        CASE s[k] = "H" -> "h" [] s[k] = "R" -> "r" [] OTHER -> Lower(s[k])]

\* line 195: re.fullmatch(r"-?\d+", s)
IsInteger(s) ==
    LET ds == IF s # <<>> /\ s[1] = "-" THEN Tail(s) ELSE s
    IN  ds # <<>> /\ \A k \in 1..Len(ds) : ds[k] \in Digits

\* line 195: int(s) for a text that IsInteger
DigitSeq == <<"0", "1", "2", "3", "4", "5", "6", "7", "8", "9">>
DigitValue(c) == (CHOOSE v \in 1..Len(DigitSeq) : DigitSeq[v] = c) - 1
RECURSIVE Decimal(_)
Decimal(ds) ==
    IF ds = <<>> THEN 0
    ELSE 10 * Decimal(SubSeq(ds, 1, Len(ds) - 1)) + DigitValue(ds[Len(ds)])
int(s) == IF s[1] = "-" THEN 0 - Decimal(Tail(s)) ELSE Decimal(s)

\* lines 180, 195: the chat_id the polls of a publish pass are sent to
TargetChat(m) ==
    LET group_id == strip(m.text)
    IN  IF lower(group_id) = <<"/", "h", "e", "r", "e">> THEN <<"message.chat.id", m.chat>>
        ELSE IF IsInteger(group_id) THEN <<"int", int(group_id)>>
        ELSE <<"str", group_id>>

\* line 170
Pending(uid) == owner_questions[uid].present /\ owner_questions[uid].quizzes # <<>>

BotInit ==
    /\ data = None
    /\ ParserIdle
    /\ BotIdle

\* bot.reply_to(message, ...) by the handler of thread h; the call returns
\* (only send_poll is taken to raise)
Reply(h, what) == replies' = [replies EXCEPT ![handlers[h].msg.id] = Append(@, what)]

\* the handler of thread h returns
Finish(h) == handlers' = [handlers EXCEPT ![h] = Idle]

\* line 247: the next update is handed to a free worker thread
Dispatch(h) ==
    /\ handlers[h].pc = "idle"
    /\ received < MaxMessages
    /\ \E u \in Updates :
          LET m == u @@ [id |-> received + 1]
          IN  handlers' = [handlers EXCEPT ![h] = [Idle EXCEPT !.pc = Handler(m), !.msg = m]]
    /\ received' = received + 1
    /\ polls' = Append(polls, <<>>)
    /\ replies' = Append(replies, <<>>)
    /\ UNCHANGED <<parser_vars, owner_questions>>

\* lines 148-159
Start(h) ==
    /\ handlers[h].pc = "start"
    /\ Reply(h, IF is_owner(handlers[h].msg) THEN "help" ELSE "not authorized")
    /\ Finish(h)
    /\ UNCHANGED <<parser_vars, owner_questions, received, polls>>

\* lines 166-167
TextNotOwner(h) ==
    /\ handlers[h].pc = "handle_text"
    /\ ~is_owner(handlers[h].msg)
    /\ Finish(h)
    /\ UNCHANGED <<parser_vars, owner_questions, received, polls, replies>>

\* line 170, a batch is pending
TextDestination(h) ==
    /\ handlers[h].pc = "handle_text"
    /\ is_owner(handlers[h].msg)
    /\ Pending(handlers[h].msg.from)
    /\ handlers' = [handlers EXCEPT ![h].pc = "destination"]
    /\ UNCHANGED <<parser_vars, owner_questions, received, polls, replies>>

\* line 170, no batch is pending
TextContent(h) ==
    /\ handlers[h].pc = "handle_text"
    /\ is_owner(handlers[h].msg)
    /\ ~Pending(handlers[h].msg.from)
    /\ handlers' = [handlers EXCEPT ![h].pc = "parse"]
    /\ UNCHANGED <<parser_vars, owner_questions, received, polls, replies>>

\* lines 171-176, 194-197
Announce(h) ==
    /\ handlers[h].pc = "destination"
    /\ handlers' = [handlers EXCEPT ![h] =
          [@ EXCEPT !.pc = "publish",
                    !.quizzes = owner_questions[handlers[h].msg.from].quizzes,
                    !.batch = owner_questions[handlers[h].msg.from].batch,
                    !.target_chat = TargetChat(handlers[h].msg),
                    !.k = 0]]
    /\ Reply(h, "posting")
    /\ UNCHANGED <<parser_vars, owner_questions, received, polls>>

\* the send_poll call for the record the loop of line 177 or 198 stands on
Poll(h, sent) ==
    [ batch |-> handlers[h].batch, index |-> handlers[h].k,
      chat_id |-> handlers[h].target_chat,
      quiz |-> handlers[h].quizzes[handlers[h].k + 1], ok |-> sent ]

\* lines 177-188, 198-209: send_poll returns
SendPollOk(h) ==
    /\ handlers[h].pc = "publish"
    /\ handlers[h].k < Len(handlers[h].quizzes)
    /\ polls' = [polls EXCEPT ![handlers[h].msg.id] = Append(@, Poll(h, TRUE))]
    /\ handlers' = [handlers EXCEPT ![h].k = @ + 1]
    /\ UNCHANGED <<parser_vars, owner_questions, received, replies>>

\* a failed send_poll that ends the loop
SendPollFailsAborts(h) ==
    /\ handlers[h].pc = "publish"
    /\ handlers[h].k < Len(handlers[h].quizzes)
    /\ polls' = [polls EXCEPT ![handlers[h].msg.id] = Append(@, Poll(h, FALSE))]
    /\ Reply(h, "error")
    /\ handlers' = [handlers EXCEPT ![h].k = Len(handlers[h].quizzes)]
    /\ UNCHANGED <<parser_vars, owner_questions, received>>

\* lines 177-190, 198-211: send_poll raises
SendPollFails(h) ==
    /\ handlers[h].pc = "publish"
    /\ handlers[h].k < Len(handlers[h].quizzes)
    /\ polls' = [polls EXCEPT ![handlers[h].msg.id] = Append(@, Poll(h, FALSE))]
    /\ Reply(h, "error")
    /\ handlers' = [handlers EXCEPT ![h].k = @ + 1]
    /\ UNCHANGED <<parser_vars, owner_questions, received>>

\* a pass that keeps the batch when one of its polls was not sent
ClearBatchUnlessFailed(h) ==
    /\ handlers[h].pc = "publish"
    /\ handlers[h].k >= Len(handlers[h].quizzes)
    /\ owner_questions' =
          IF \E j \in 1..Len(polls[handlers[h].msg.id]) : ~polls[handlers[h].msg.id][j].ok
          THEN owner_questions
          ELSE [owner_questions EXCEPT ![handlers[h].msg.from].quizzes = <<>>]
    /\ Finish(h)
    /\ UNCHANGED <<parser_vars, received, polls, replies>>

\* lines 191-192, 212-213
ClearBatch(h) ==
    /\ handlers[h].pc = "publish"
    /\ handlers[h].k >= Len(handlers[h].quizzes)
    /\ owner_questions' = [owner_questions EXCEPT ![handlers[h].msg.from].quizzes = <<>>]
    /\ Finish(h)
    /\ UNCHANGED <<parser_vars, received, polls, replies>>

\* lines 216-219
TextNoQuiz(h) ==
    /\ handlers[h].pc = "parse"
    /\ Extracted[handlers[h].msg.text] = <<>>
    /\ Reply(h, "no valid quizzes")
    /\ Finish(h)
    /\ UNCHANGED <<parser_vars, owner_questions, received, polls>>

\* lines 216-217
TextParsed(h) ==
    /\ handlers[h].pc = "parse"
    /\ Extracted[handlers[h].msg.text] # <<>>
    /\ handlers' = [handlers EXCEPT ![h] =
          [@ EXCEPT !.pc = "store", !.quizzes = Extracted[handlers[h].msg.text]]]
    /\ UNCHANGED <<parser_vars, owner_questions, received, polls, replies>>

\* lines 227-228
DocumentNotOwner(h) ==
    /\ handlers[h].pc = "handle_document"
    /\ ~is_owner(handlers[h].msg)
    /\ Finish(h)
    /\ UNCHANGED <<parser_vars, owner_questions, received, polls, replies>>

\* lines 229-234
DocumentUnreadable(h) ==
    /\ handlers[h].pc = "handle_document"
    /\ is_owner(handlers[h].msg)
    /\ ~handlers[h].msg.readable
    /\ Reply(h, "error reading file")
    /\ Finish(h)
    /\ UNCHANGED <<parser_vars, owner_questions, received, polls>>

\* lines 229-239
DocumentNoQuiz(h) ==
    /\ handlers[h].pc = "handle_document"
    /\ is_owner(handlers[h].msg)
    /\ handlers[h].msg.readable
    /\ Extracted[handlers[h].msg.text] = <<>>
    /\ Reply(h, "no valid quizzes in file")
    /\ Finish(h)
    /\ UNCHANGED <<parser_vars, owner_questions, received, polls>>

\* lines 229-237
DocumentParsed(h) ==
    /\ handlers[h].pc = "handle_document"
    /\ is_owner(handlers[h].msg)
    /\ handlers[h].msg.readable
    /\ Extracted[handlers[h].msg.text] # <<>>
    /\ handlers' = [handlers EXCEPT ![h] =
          [@ EXCEPT !.pc = "store", !.quizzes = Extracted[handlers[h].msg.text]]]
    /\ UNCHANGED <<parser_vars, owner_questions, received, polls, replies>>

\* lines 221-222, 241-242
Store(h) ==
    /\ handlers[h].pc = "store"
    /\ owner_questions' = [owner_questions EXCEPT ![handlers[h].msg.from] =
          [present |-> TRUE, quizzes |-> handlers[h].quizzes, batch |-> handlers[h].msg.id]]
    /\ Reply(h, IF handlers[h].msg.kind = "text" THEN "parsed" ELSE "loaded")
    /\ Finish(h)
    /\ UNCHANGED <<parser_vars, received, polls>>

BotNext ==
    \E h \in Threads :
        \/ Dispatch(h)
        \/ Start(h)
        \/ TextNotOwner(h)
        \/ TextDestination(h)
        \/ TextContent(h)
        \/ Announce(h)
        \/ SendPollOk(h)
        \/ SendPollFails(h)
        \/ ClearBatch(h)
        \/ TextNoQuiz(h)
        \/ TextParsed(h)
        \/ DocumentNotOwner(h)
        \/ DocumentUnreadable(h)
        \/ DocumentNoQuiz(h)
        \/ DocumentParsed(h)
        \/ Store(h)

BotSpec == BotInit /\ [][BotNext]_vars

\* ------------------------------------------------------------ the claims

Done == pc = "done"

\* the blocks that gave a record; the k-th gave quizzes[k]
EmittedBlocks == SelectSeq(blocks, LAMBDA b : b.emitted)

\* line p (0-based) of the input
LineAt(p) == lines[p + 1]

\* the collected option lines of block b carry this many glyph-marked lines
GlyphLine(s) == \E k \in 1..Len(s) : s[k] \in {HeavyCheck, CheckMark}
MarkedOptionLines(b) == {k \in 0..(b.oend - b.qend - 1) : GlyphLine(LineAt(b.qend + k))}

\* C1: every record returned by extract_quiz has at least 2 and at most 10
\* options, whatever the input.
C1_OptionBound ==
    \A k \in 1..Len(quizzes) :
        Len(quizzes[k].options) >= 2 /\ Len(quizzes[k].options) <= 10

\* a record of 10 options taken from a run of more than 10 option lines
C1_Witness ==
    /\ Done
    /\ \E k \in 1..Len(quizzes) :
          /\ Len(quizzes[k].options) = 10
          /\ EmittedBlocks[k].oend < n
          /\ is_option_line(LineAt(EmittedBlocks[k].oend))

\* C2: every record's correct_id is an index into its own options:
\* 0 <= correct_id < len(options).
C2_CorrectIdValid ==
    \A k \in 1..Len(quizzes) :
        quizzes[k].correct_id >= 0 /\ quizzes[k].correct_id < Len(quizzes[k].options)

\* a record whose last option is the marked one
C2_Witness ==
    /\ Done
    /\ \E k \in 1..Len(quizzes) :
          /\ Len(quizzes[k].options) >= 3
          /\ quizzes[k].correct_id = Len(quizzes[k].options) - 1
          /\ MarkedOptionLines(EmittedBlocks[k]) # {}

\* C3: when collected option lines of a block carry a glyph, the record's
\* correct_id is the lowest index among them and no stored option text of the
\* record holds a glyph.
C3_CheckmarkPrecedence ==
    /\ Len(quizzes) = Len(EmittedBlocks)
    /\ \A k \in 1..Len(quizzes) :
          LET marked == MarkedOptionLines(EmittedBlocks[k])
          IN  marked # {} =>
                /\ quizzes[k].correct_id \in marked
                /\ \A m \in marked : quizzes[k].correct_id <= m
                /\ \A j \in 1..Len(quizzes[k].options) : ~GlyphLine(quizzes[k].options[j])

\* a record with two marked options, the first of them not option 0, one of
\* each glyph
C3_Witness ==
    /\ Done
    /\ \E k \in 1..Len(quizzes) :
          LET b == EmittedBlocks[k]
          IN  /\ Cardinality(MarkedOptionLines(b)) = 2
              /\ 0 \notin MarkedOptionLines(b)
              /\ \E m \in MarkedOptionLines(b) : Contains(LineAt(b.qend + m), CheckMark)
              /\ \E m \in MarkedOptionLines(b) : Contains(LineAt(b.qend + m), HeavyCheck)

\* the block has a question, two option lines or more, and no glyph on them
Unmarked(b) ==
    /\ b.question_text # <<>>
    /\ b.oend - b.qend >= 2
    /\ MarkedOptionLines(b) = {}

\* C4: a block whose collected option lines carry no glyph is not discarded
\* for that, and its record has correct_id 0.
C4_DefaultCorrect ==
    /\ Len(quizzes) = Len(EmittedBlocks)
    /\ \A j \in 1..Len(blocks) : Unmarked(blocks[j]) => blocks[j].emitted
    /\ \A k \in 1..Len(quizzes) :
          MarkedOptionLines(EmittedBlocks[k]) = {} => quizzes[k].correct_id = 0

\* a record of an unmarked block
C4_Witness ==
    /\ Done
    /\ \E k \in 1..Len(quizzes) :
          Unmarked(EmittedBlocks[k]) /\ Len(quizzes[k].options) >= 3

\* C5: every record has a question of at most 300 characters and an
\* explanation of at most 400 characters.
C5_LengthLimits ==
    \A k \in 1..Len(quizzes) :
        Len(quizzes[k].question) <= 300 /\ Len(quizzes[k].explanation) <= 400

\* the first k characters of s followed by " [...]"
CutAndMarked(s, k) == SubSeq(s, 1, k) \o <<" ", "[", ".", ".", ".", "]">>

\* C6: a trimmed question longer than 300 characters is stored as its first
\* 300 characters followed by the truncation marker, one of 300 or fewer is
\* stored as it is, and likewise the explanation with 400; a block is never
\* discarded for its size.
C6_Truncation ==
    /\ Len(quizzes) = Len(EmittedBlocks)
    /\ \A j \in 1..Len(blocks) :
          (/\ Len(blocks[j].question_text) > 300 \/ Len(blocks[j].explanation) > 400
           /\ blocks[j].question_text # <<>>
           /\ blocks[j].oend - blocks[j].qend >= 2) => blocks[j].emitted
    /\ \A k \in 1..Len(quizzes) :
          LET b == EmittedBlocks[k]
              q == quizzes[k]
          IN  /\ Len(b.question_text) > 300 => q.question = CutAndMarked(b.question_text, 300)
              /\ Len(b.question_text) <= 300 => q.question = b.question_text
              /\ Len(b.explanation) > 400 => q.explanation = CutAndMarked(b.explanation, 400)
              /\ Len(b.explanation) <= 400 => q.explanation = b.explanation

\* a record whose question was cut and whose explanation, exactly 400
\* characters long, was not
C6_Witness ==
    /\ Done
    /\ \E k \in 1..Len(quizzes) :
          /\ Len(EmittedBlocks[k].question_text) > 300
          /\ Len(EmittedBlocks[k].explanation) = 400
          /\ Len(quizzes[k].question) = 306

\* C7: a block with only one option line gives no record, whatever else it
\* holds.
C7_DiscardRule ==
    /\ Len(quizzes) = Len(EmittedBlocks)
    /\ \A j \in 1..Len(blocks) :
          blocks[j].oend = blocks[j].qend + 1 => ~blocks[j].emitted

\* a discarded block of a question, one option line and an explanation
C7_Witness ==
    /\ Done
    /\ \E j \in 1..Len(blocks) :
          /\ blocks[j].oend = blocks[j].qend + 1
          /\ blocks[j].question_text # <<>>
          /\ blocks[j].explained
          /\ ~blocks[j].emitted

\* the block is malformed: no question text after trimming, or fewer than 2 options
Malformed(b) == b.question_text = <<>> \/ Len(b.options) < 2

\* lines p+1 .. q-1 continue a question: not blank, no option, no explanation marker
ContinuesQuestion(p, q) ==
    \A k \in (p + 1)..(q - 1) :
        /\ ~is_blank(LineAt(k))
        /\ ~is_option_line(LineAt(k))
        /\ ~is_explanation_line(LineAt(k))

\* read off the lines alone: a valid block starts at line p, that is a numbered
\* question with some text, or an unnumbered line right before its options,
\* and two option lines at least
ValidBlockAt(p) ==
    /\ ~is_blank(LineAt(p))
    /\ \E q \in (p + 1)..(n - 2) :
          /\ ContinuesQuestion(p, q)
          /\ is_option_line(LineAt(q))
          /\ is_option_line(LineAt(q + 1))
          /\ IF num_start(LineAt(p))
             THEN StripNumber(LineAt(p)) # <<>> \/ q > p + 1
             ELSE q = p + 1

\* line p is where a block can start once block b is over: right where b
\* ended, after a blank line, or wherever the scan came to
StartsAfter(p, b) ==
    /\ p >= b.end
    /\ p < n
    /\ \/ p = b.end
       \/ is_blank(LineAt(p - 1))
       \/ p \in visited

\* the step discards a malformed block
DiscardsBlock ==
    /\ Len(blocks') = Len(blocks) + 1
    /\ Malformed(blocks'[Len(blocks')])

\* C8: a malformed block is discarded alone: its step emits no record and
\* leaves the records emitted so far as they are, and every valid block that
\* follows it in the input has a record of its own when the scan is over.
C8_DiscardOnlyThatBlock ==
    /\ [][DiscardsBlock => quizzes' = quizzes /\ pc' = "scan"]_vars
    /\ [](Done =>
            \A j \in 1..Len(blocks) : \A p \in 0..(n - 1) :
                (Malformed(blocks[j]) /\ StartsAfter(p, blocks[j]) /\ ValidBlockAt(p))
                    => \E k \in 1..Len(EmittedBlocks) :
                         /\ EmittedBlocks[k].start = p
                         /\ k <= Len(quizzes)
                         /\ quizzes[k].options = EmittedBlocks[k].options)

\* after a block discarded for its single option a valid block was emitted
C8_Witness ==
    /\ Done
    /\ \E j \in 1..Len(blocks) : \E m \in 1..Len(blocks) :
          /\ j < m
          /\ Len(blocks[j].options) = 1
          /\ ~blocks[j].emitted
          /\ blocks[m].emitted
          /\ ValidBlockAt(blocks[m].start)

\* a step from one head of the loop of line 42 to the next
IterationStep == pc = "scan" /\ pc' = "scan"

\* the call has not returned and has a step to take: the test of line 24, the
\* loop's exit, or one of the branches of the loop body, which moves the cursor
CanStep ==
    \/ pc = "start"
    \/ pc = "scan" /\ i >= n
    \/ /\ pc = "scan"
       /\ i < n
       /\ IF is_blank(LineAt(i)) \/ ~IsQuestionStart(lines, i)
          THEN i + 1 <= n
          ELSE Block(lines, i).end > i /\ Block(lines, i).end <= n

\* C9: extract_quiz terminates on every input and returns a list, the empty
\* one for empty or absent input: every iteration of the scan loop, the
\* discarding ones too, moves the cursor on by one line at least, so the loop
\* runs n times at most; until it has returned the call always has a step to
\* take.
C9_Terminates ==
    /\ [][IterationStep => i' > i]_vars
    /\ [](i <= n /\ iters <= n)
    /\ [](~Done => CanStep)
    /\ [](Done /\ IsEmpty(data) => quizzes = <<>>)

\* the scan came to its end over an input with a discarded block and a record
C9_Witness ==
    /\ Done
    /\ i = n
    /\ quizzes # <<>>
    /\ \E j \in 1..Len(blocks) : ~blocks[j].emitted

\* C10: the records come in the order in which their blocks start in the
\* input: record k is the one of the k-th emitted block, and the start lines
\* of successive records increase strictly, discarded blocks between them or
\* not.
C10_OrderPreserved ==
    /\ Len(quizzes) = Len(EmittedBlocks)
    /\ \A k \in 1..Len(quizzes) :
          /\ quizzes[k].options = EmittedBlocks[k].options
          /\ quizzes[k].question = Truncate(EmittedBlocks[k].question_text, 300)
    /\ \A k \in 1..(Len(EmittedBlocks) - 1) :
          EmittedBlocks[k].start < EmittedBlocks[k + 1].start

\* two different records with a discarded block between them
C10_Witness ==
    /\ Done
    /\ Len(quizzes) >= 2
    /\ quizzes[1] # quizzes[2]
    /\ \E j \in 2..(Len(blocks) - 1) :
          /\ ~blocks[j].emitted
          /\ blocks[j - 1].emitted
          /\ blocks[j + 1].emitted

\* C11: normalizing the line endings of a text that is already normalized
\* changes nothing, and a normalized text holds no carriage return.
C11_NormalizeIdempotent ==
    /\ [][pc = "normalized" => txt' = txt]_vars
    /\ [](pc # "start" => ~Contains(txt, CR))

\* in RawInputs: a CR LF pair and a lone CR were both rewritten, twice over
C11_Witness ==
    /\ pc = "renormalized"
    /\ \E k \in 1..(Len(data[1]) - 1) : data[1][k] = CR /\ data[1][k + 1] = LF
    /\ \E k \in 1..(Len(data[1]) - 1) : data[1][k] = CR /\ data[1][k + 1] # LF
    /\ Len(txt) < Len(data[1])

\* C12: the question of every record holds a character that is not white
\* space, and a block whose question is empty once trimmed is never emitted,
\* however many options it collected.
C12_QuestionNeverEmpty ==
    /\ \A k \in 1..Len(quizzes) : strip(quizzes[k].question) # <<>>
    /\ \A j \in 1..Len(blocks) : blocks[j].question_text = <<>> => ~blocks[j].emitted

\* a block with two options and no question text was dropped, another emitted
C12_Witness ==
    /\ Done
    /\ quizzes # <<>>
    /\ \E j \in 1..Len(blocks) :
           /\ blocks[j].question_text = <<>>
           /\ Len(blocks[j].options) >= MinOptions
           /\ ~blocks[j].emitted

\* thread h takes a step of the handler it is running
Steps(h) == handlers[h].pc # "idle" /\ handlers'[h] # handlers[h]

\* the polls of message m that were not sent
Failed(m) == SelectSeq(polls[m], LAMBDA p : ~p.ok)

C15_ForwardOnly ==
    /\ [][i' >= i]_vars
    /\ [](\A j \in 1..Len(blocks) :
             /\ blocks[j].start < blocks[j].end
             /\ blocks[j].end <= n
             /\ j > 1 => blocks[j - 1].end <= blocks[j].start
             /\ \A p \in visited : ~(blocks[j].start < p /\ p < blocks[j].end))
    /\ [](pc # "start" => \A j \in 1..Len(blocks) : blocks[j].end <= i)

\* a discarded block of several lines, then an emitted one, and the end reached
C15_Witness ==
    /\ Done
    /\ i = n
    /\ \E j \in 1..Len(blocks), m \in 1..Len(blocks) :
          /\ j < m
          /\ ~blocks[j].emitted
          /\ blocks[j].end > blocks[j].start + 1
          /\ blocks[m].emitted

\* C16: no block begins on an option line, so the question of every record
\* is seeded from a line that is not an option line, also where option lines
\* are left over after the tenth option or after a discarded block.
C16_QuestionNotOptionLine ==
    \A j \in 1..Len(blocks) : ~is_option_line(LineAt(blocks[j].start))

\* line p is not blank and not numbered, and the next non-blank line, if
\* there is one, is not an option line
Stray(p) ==
    /\ ~is_blank(LineAt(p))
    /\ ~num_start(LineAt(p))
    /\ \A q \in (p + 1)..(n - 1) :
          ~is_blank(LineAt(q)) /\ (\A r \in (p + 1)..(q - 1) : is_blank(LineAt(r)))
          => ~is_option_line(LineAt(q))

Explained(b) == b.oend < n /\ is_explanation_line(LineAt(b.oend))

\* line p ends an explanation: it is blank, numbered or an option line
StopsExplanation(p) ==
    is_blank(LineAt(p)) \/ num_start(LineAt(p)) \/ is_option_line(LineAt(p))

\* the text after the marker of line p and the lines p+1 .. q-1, trimmed
ExplanationParts(p, q) ==
    [k \in 1..(q - p) |-> IF k = 1 THEN StripMarker(LineAt(p)) ELSE strip(LineAt(p + k - 1))]

\* C18: the explanation of a block whose options are followed by a marker
\* line is the text after the marker and the lines after it, joined by single
\* spaces, up to the first blank, numbered or option line (or the end of the
\* input); the scan goes on from that stopping line, so that a numbered line
\* there starts a block of its own; a record's explanation is that text, cut
\* when it is longer than the limit.
C18_ExplanationExtent ==
    /\ \A j \in 1..Len(blocks) :
          LET b == blocks[j]
          IN  Explained(b)
              => /\ b.oend < b.end
                 /\ \A q \in (b.oend + 1)..(b.end - 1) : ~StopsExplanation(q)
                 /\ b.end < n => StopsExplanation(b.end)
                 /\ b.explanation = Joined(ExplanationParts(b.oend, b.end), <<" ">>)
                 /\ b.end < n /\ pc # "start" => i = b.end \/ b.end \in visited
                 /\ b.end < n /\ num_start(LineAt(b.end))
                    => i = b.end \/ \E m \in 1..Len(blocks) : blocks[m].start = b.end
    /\ \A k \in 1..Len(quizzes) :
          LET b == EmittedBlocks[k]
          IN  Explained(b)
              => IF Len(b.explanation) <= ExplanationLimit
                 THEN quizzes[k].explanation = b.explanation
                 ELSE Take(quizzes[k].explanation, ExplanationLimit)
                        = Take(b.explanation, ExplanationLimit)

\* an emitted record's explanation ran over two lines and stopped on a
\* numbered line, which began the next emitted block
C18_Witness ==
    /\ Done
    /\ \E j \in 1..Len(blocks), m \in 1..Len(blocks) :
          /\ Explained(blocks[j])
          /\ blocks[j].emitted
          /\ blocks[j].end > blocks[j].oend + 1
          /\ blocks[j].end < n
          /\ num_start(LineAt(blocks[j].end))
          /\ blocks[m].start = blocks[j].end
          /\ blocks[m].emitted

\* C19: the records of a stored batch are sent under one message at most: no
\* second message publishes the batch again, not even one whose handler runs
\* while the first pass is still sending.
C19_PublishedAtMostOnce ==
    \A m1 \in 1..received, m2 \in 1..received :
        m1 # m2
        => \A j1 \in 1..Len(polls[m1]), j2 \in 1..Len(polls[m2]) :
              polls[m1][j1].batch # polls[m2][j2].batch

\* thread h runs a handler that finds nothing to store or to publish: the
\* sender is not the owner, the file cannot be read, or no quiz is parsed
FindsNothing(h) ==
    \/ handlers[h].msg.from # OWNER_ID
    \/ handlers[h].msg.kind = "document" /\ ~handlers[h].msg.readable
    \/ handlers[h].pc \in {"parse", "handle_document"} /\ Extracted[handlers[h].msg.text] = <<>>

\* C20: the store changes only when the handler of an owner's message stores
\* a non-empty parse or ends a publish pass, and polls are sent only in such
\* a pass; the handler of a message from another user, of a file that cannot
\* be read or of a content without a valid quiz changes neither.
C20_StoreFrame ==
    [][/\ owner_questions' # owner_questions
          => \E h \in Threads :
                /\ Steps(h)
                /\ handlers[h].msg.from = OWNER_ID
                /\ \/ /\ handlers[h].pc = "store"
                      /\ handlers[h].quizzes # <<>>
                      /\ handlers[h].quizzes = Extracted[handlers[h].msg.text]
                      /\ owner_questions' = [owner_questions EXCEPT ![OWNER_ID] =
                            [present |-> TRUE, quizzes |-> handlers[h].quizzes,
                             batch |-> handlers[h].msg.id]]
                   \/ /\ handlers[h].pc = "publish"
                      /\ handlers[h].msg.kind = "text"
                      /\ owner_questions' = [owner_questions EXCEPT ![OWNER_ID].quizzes = <<>>]
       /\ (\E m \in 1..received : polls'[m] # polls[m])
          => \E h \in Threads :
                /\ Steps(h)
                /\ handlers[h].msg.from = OWNER_ID
                /\ handlers[h].msg.kind = "text"
                /\ handlers[h].pc = "publish"
       /\ \A h \in Threads :
             Steps(h) /\ FindsNothing(h)
             => /\ owner_questions' = owner_questions
                /\ \A m \in 1..received : polls'[m] = polls[m]]_vars

\* the owner's batch is still pending after a file without a quiz and a
\* message that got no reply at all (a text or a file of another user) were
\* handled, and no poll was sent
C20_Witness ==
    /\ \A h \in Threads : handlers[h] = Idle
    /\ Pending(OWNER_ID)
    /\ owner_questions[OWNER_ID].batch = 1
    /\ replies = <<<<"parsed">>, <<"no valid quizzes in file">>, <<>>>>
    /\ polls = <<<<>>, <<>>, <<>>>>

====
